---------------------------- MODULE Spec2Model ----------------------------
(***************************************************************************)
(* A model of the Huffman codec of src/huffman.py and of the classes of    *)
(* src/nodes.py (HuffmanNode, ReadNode, PriorityQueue).                    *)
(*                                                                         *)
(* Python values are represented as follows.                               *)
(*   None (as a node reference)   the record None                          *)
(*   None (symbol / number)       NoSymbol / NoNumber (= -1, no byte or    *)
(*                                postorder number is negative)            *)
(*   HuffmanNode                  [symbol, left, right, number]            *)
(*   a reference to a node        its path from the root (<<>> = root,     *)
(*                                0 = .left, 1 = .right)                   *)
(*   ReadNode                     [l_type, l_data, r_type, r_data]         *)
(*   bytes / bytearray / list     a sequence                               *)
(*   str of '0'/'1'               a sequence over {0, 1}                   *)
(*   dict whose order is used     a sequence of <<key, value>> pairs in    *)
(*                                insertion order (freq_dict)              *)
(*   dict whose order is unused   a function (codes, dic, _items)          *)
(*   call outcome                 Ok(v) for a return, Raise(e) for an      *)
(*                                uncaught exception of class e            *)
(***************************************************************************)
EXTENDS Integers, Sequences, FiniteSets, TLC

VARIABLES
  pc,            \* position of the running call
  err,           \* class of the exception that ended the call, "" if none
  \* ---- PriorityQueue object
  items,         \* PriorityQueue._items
  pq_ret,        \* value returned by the last PriorityQueue method
  inserts,       \* history: number of insert calls that returned
  extracts,      \* history: number of extractMin calls that returned
  \* ---- tree functions
  tree,          \* the HuffmanNode tree the caller holds
  tree0,         \* history: the tree as it was handed to the call
  freq_dict,     \* the caller's frequency dict
  freq0,         \* history: freq_dict as it was handed to the call
  codes,         \* result of get_codes
  buf,           \* result of tree_to_bytes
  node_lst,      \* result of bytes_to_nodes
  general,       \* result of generate_tree_general
  postorder,     \* result of generate_tree_postorder
  \* ---- codec
  text,          \* bytes given to compress / generate_compressed
  packed,        \* outcome of generate_compressed
  out_file,      \* outcome of compress (bytes written to out_file)
  orig_file,     \* uncompress: bytes of its out_file, None until opened
  chain,         \* which top-level call sequence is running
  payload,       \* generate_uncompressed: parameter text
  size,          \* generate_uncompressed: parameter size
  dic,           \* generate_uncompressed: local dic
  string_bits,   \* generate_uncompressed: local string_bits
  uncompressed,  \* generate_uncompressed: local uncmopressed_bytes
  i,             \* generate_uncompressed: local i
  bit_code,      \* generate_uncompressed: local bit_code
  s              \* generate_uncompressed: local s

vars == <<pc, err, items, pq_ret, inserts, extracts,
          tree, tree0, freq_dict, freq0, codes, buf, node_lst, general,
          postorder, text, packed, out_file, orig_file, chain, payload, size,
          dic,
          string_bits, uncompressed, i, bit_code, s>>

pqVars == <<items, pq_ret, inserts, extracts>>
treeVars == <<tree, tree0, freq_dict, freq0, codes, buf, node_lst, general,
              postorder>>
guVars == <<payload, size, dic, string_bits, uncompressed, i, bit_code, s>>
codecVars == <<text, packed, out_file, orig_file, chain>>

-----------------------------------------------------------------------------
(* Bounds of the model.                                                    *)

MaxLeaves == 5        \* trees have at most this many leaves
MaxTextLen == 3       \* texts have at most this many bytes
NumSymbols == 3       \* texts are over the symbols 0 .. NumSymbols-1
MaxWeight == 3        \* PriorityQueue keys are 1 .. MaxWeight
MaxInserts == 4       \* PriorityQueue: at most this many insert calls
MaxSize == 2          \* generate_uncompressed: size is 0 .. MaxSize
MaxPayloadLen == 1    \* payloads have at most this many bytes
MaxBuildSyms == 4     \* huffman_tree: frequency dicts have at most this many
                      \* symbols
MaxFreq == 4          \* huffman_tree: counts are 1 .. MaxFreq
CombDepth == 9        \* depth of the deepest tree handed to the unpacker
ScanSlack == 2        \* the scan of generate_uncompressed is followed
                      \* this many bits past the end of string_bits

-----------------------------------------------------------------------------
(* Python values.                                                          *)

None == [none |-> TRUE]
NoSymbol == 0 - 1
NoNumber == 0 - 1

Ok(v) == [ok |-> TRUE, err |-> "", val |-> v]
Raise(e) == [ok |-> FALSE, err |-> e, val |-> <<>>]

EmptyDict == <<>>

\* a local variable that has not been assigned
Unbound == [unbound |-> TRUE]

\* d[k] = v of a dict whose order is not used
Put(d, k, v) == [x \in (DOMAIN d) \cup {k} |-> IF x = k THEN v ELSE d[x]]

\* del d[k]
Del(d, k) == [x \in (DOMAIN d) \ {k} |-> d[x]]

\* seq[n:] of Python, n >= 0
Drop(seq, n) == SubSeq(seq, n + 1, Len(seq))

\* seq[:n] of Python, n >= 0
Take(seq, n) == SubSeq(seq, 1, IF n < Len(seq) THEN n ELSE Len(seq))

RECURSIVE Pow2(_)
Pow2(n) == IF n = 0 THEN 1 ELSE 2 * Pow2(n - 1)

-----------------------------------------------------------------------------
(* class HuffmanNode                                                       *)

HuffmanNode(symbol, left, right) ==
  [symbol |-> symbol, left |-> left, right |-> right, number |-> NoNumber]

is_leaf(self) == self.left = None /\ self.right = None

RECURSIVE HuffmanNode__eq__(_, _)
HuffmanNode__eq__(self, other) ==
  IF self = None \/ other = None
  THEN self = other
  ELSE /\ self.symbol = other.symbol
       /\ HuffmanNode__eq__(self.left, other.left)
       /\ HuffmanNode__eq__(self.right, other.right)

\* the node a reference (path) denotes
RECURSIVE NodeAt(_, _)
NodeAt(t, path) ==
  IF path = <<>> THEN t
  ELSE NodeAt(IF Head(path) = 0 THEN t.left ELSE t.right, Tail(path))

\* the tree after  ref.number = n
RECURSIVE SetNumber(_, _, _)
SetNumber(t, path, n) ==
  IF path = <<>> THEN [t EXCEPT !.number = n]
  ELSE IF Head(path) = 0
       THEN [t EXCEPT !.left = SetNumber(t.left, Tail(path), n)]
       ELSE [t EXCEPT !.right = SetNumber(t.right, Tail(path), n)]

ReadNode(l_type, l_data, r_type, r_data) ==
  [l_type |-> l_type, l_data |-> l_data, r_type |-> r_type, r_data |-> r_data]

-----------------------------------------------------------------------------
(* class PriorityQueue: a method returns the outcome of the call and, in   *)
(* field items, the _items dict it leaves behind.                          *)

\* min(...) of Python over a non-empty set of ints
Min(S) == CHOOSE x \in S : \A y \in S : x <= y

\* key_is_int is isinstance(key, int)
insert(self_items, key, key_is_int, val) ==
  IF key_is_int
  THEN Ok(None) @@ [items |-> Put(self_items, key, val)]
  ELSE Raise("PriorityQueueError") @@ [items |-> self_items]

extractMin(self_items) ==
  IF DOMAIN self_items = {}
  THEN Raise("PriorityQueueError") @@ [items |-> self_items]
  ELSE LET mini_key == Min(DOMAIN self_items)
           mini == <<mini_key, self_items[mini_key]>>
       IN  Ok(mini) @@ [items |-> Del(self_items, mini_key)]

PriorityQueue_min(self_items) ==
  IF DOMAIN self_items = {}
  THEN Raise("PriorityQueueError") @@ [items |-> self_items]
  ELSE LET mini_key == Min(DOMAIN self_items)
       IN  Ok(<<mini_key, self_items[mini_key]>>) @@ [items |-> self_items]

is_empty(self_items) == DOMAIN self_items = {}

-----------------------------------------------------------------------------
(* Helper functions for manipulating bytes                                 *)

get_bit(byte, bit_num) == (byte \div Pow2(bit_num)) % 2

byte_to_bits(byte) == [k \in 1..8 |-> get_bit(byte, 8 - k)]

RECURSIVE SumSeq(_)
SumSeq(seq) == IF seq = <<>> THEN 0 ELSE Head(seq) + SumSeq(Tail(seq))

\* pos of the source is k - 1
bits_to_byte(bits) == SumSeq([k \in 1..Len(bits) |-> bits[k] * Pow2(8 - k)])

\* bytes([x]): x is None, out of range(256), or a byte
bytes1(x) ==
  IF x = NoSymbol THEN Raise("TypeError")
  ELSE IF x \notin 0..255 THEN Raise("ValueError")
  ELSE Ok(<<x>>)

-----------------------------------------------------------------------------
(* Insertion-ordered dicts (freq_dict): sequences of <<key, value>>.       *)

OD_Keys(d) == {d[k][1] : k \in DOMAIN d}

OD_Get(d, key) == LET k == CHOOSE k \in DOMAIN d : d[k][1] = key IN d[k][2]

OD_Set(d, key, v) ==
  IF key \in OD_Keys(d)
  THEN [k \in DOMAIN d |-> IF d[k][1] = key THEN <<key, v>> ELSE d[k]]
  ELSE Append(d, <<key, v>>)

OD_Del(d, key) == SelectSeq(d, LAMBDA e : e[1] # key)

-----------------------------------------------------------------------------
(* Functions for compression                                               *)

RECURSIVE make_freq_dict_loop(_, _)
make_freq_dict_loop(txt, d) ==
  IF txt = <<>> THEN d
  ELSE LET ele == Head(txt)
       IN  make_freq_dict_loop(Tail(txt),
             IF ele \notin OD_Keys(d) THEN OD_Set(d, ele, 1)
             ELSE OD_Set(d, ele, OD_Get(d, ele) + 1))

make_freq_dict(txt) == make_freq_dict_loop(txt, <<>>)

\* the _items of the queue helper_huffman_tree returns
RECURSIVE helper_huffman_tree_loop(_, _)
helper_huffman_tree_loop(fd, p) ==
  IF fd = <<>> THEN p
  ELSE LET ele == Head(fd)[1]
           node == HuffmanNode(ele, None, None)
           freq == Head(fd)[2]
       IN  helper_huffman_tree_loop(Tail(fd), insert(p, freq, TRUE, node).items)

helper_huffman_tree(fd) == helper_huffman_tree_loop(fd, EmptyDict)

RECURSIVE huffman_tree_loop(_)
huffman_tree_loop(p) ==
  LET e1 == extractMin(p)
  IN  IF ~e1.ok THEN Raise(e1.err)
      ELSE LET n1 == e1.val
           IN  IF is_empty(e1.items) THEN Ok(n1[2])
               ELSE LET e2 == extractMin(e1.items)
                        n2 == e2.val
                        node == HuffmanNode(NoSymbol, n1[2], n2[2])
                    IN  huffman_tree_loop(
                          insert(e2.items, n1[1] + n2[1], TRUE, node).items)

huffman_tree(fd) == huffman_tree_loop(helper_huffman_tree(fd))

\* get_codes_helper appending '0' on the way to the right child too
RECURSIVE get_codes_helper_right0(_, _, _)
get_codes_helper_right0(t, str, d) ==
  IF t = None \/ (t.left = None /\ t.right = None) THEN d
  ELSE LET d1 == IF t.left # None /\ t.left.symbol # NoSymbol
                 THEN Put(d, t.left.symbol, str \o <<0>>) ELSE d
           d2 == get_codes_helper_right0(t.left, str \o <<0>>, d1)
           d3 == IF t.right # None /\ t.right.symbol # NoSymbol
                 THEN Put(d2, t.right.symbol, str \o <<0>>) ELSE d2
       IN  get_codes_helper_right0(t.right, str \o <<0>>, d3)

RECURSIVE get_codes_helper(_, _, _)
get_codes_helper(t, str, d) ==
  IF t = None \/ (t.left = None /\ t.right = None) THEN d
  ELSE LET d1 == IF t.left # None /\ t.left.symbol # NoSymbol
                 THEN Put(d, t.left.symbol, str \o <<0>>) ELSE d
           d2 == get_codes_helper(t.left, str \o <<0>>, d1)
           d3 == IF t.right # None /\ t.right.symbol # NoSymbol
                 THEN Put(d2, t.right.symbol, str \o <<1>>) ELSE d2
       IN  get_codes_helper(t.right, str \o <<1>>, d3)

get_codes(t) == get_codes_helper(t, <<>>, EmptyDict)

\* the references to the nodes of the subtree at path, in postorder
RECURSIVE post_order_at(_, _)
post_order_at(t, path) ==
  IF t = None THEN <<>>
  ELSE post_order_at(t.left, path \o <<0>>)
         \o post_order_at(t.right, path \o <<1>>) \o <<path>>

post_order(t) == post_order_at(t, <<>>)

\* number_nodes_loop without the is_leaf test: leaves are numbered too
RECURSIVE number_nodes_loop_all(_, _, _, _)
number_nodes_loop_all(t, lst, k, n) ==
  IF k > Len(lst) THEN t
  ELSE number_nodes_loop_all(SetNumber(t, lst[k], n), lst, k + 1, n + 1)

RECURSIVE number_nodes_loop(_, _, _, _)
number_nodes_loop(t, lst, k, n) ==
  IF k > Len(lst) THEN t
  ELSE IF ~is_leaf(NodeAt(t, lst[k]))
       THEN number_nodes_loop(SetNumber(t, lst[k], n), lst, k + 1, n + 1)
       ELSE number_nodes_loop(t, lst, k + 1, n)

\* the tree as number_nodes leaves it
number_nodes(t) == number_nodes_loop(t, post_order(t), 1, 0)

\* child_to_bytes with the type bytes of leaf and internal child exchanged
child_to_bytes_flipped(child) ==
  IF child = None THEN Raise("AttributeError")
  ELSE IF is_leaf(child)
       THEN LET d == bytes1(child.symbol)
            IN  IF d.ok THEN Ok(<<1>> \o d.val) ELSE d
       ELSE LET d == bytes1(child.number)
            IN  IF d.ok THEN Ok(<<0>> \o d.val) ELSE d

\* the 4 bytes tree_to_bytes emits for one child of an internal node
child_to_bytes(child) ==
  IF child = None THEN Raise("AttributeError")
  ELSE IF is_leaf(child)
       THEN LET d == bytes1(child.symbol)
            IN  IF d.ok THEN Ok(<<0>> \o d.val) ELSE d
       ELSE LET d == bytes1(child.number)
            IN  IF d.ok THEN Ok(<<1>> \o d.val) ELSE d

RECURSIVE tree_to_bytes_loop(_, _, _, _)
tree_to_bytes_loop(t, lst, k, b) ==
  IF k > Len(lst) THEN Ok(b)
  ELSE LET ele == NodeAt(t, lst[k])
       IN  IF is_leaf(ele) THEN tree_to_bytes_loop(t, lst, k + 1, b)
           ELSE LET l == child_to_bytes(ele.left)
                    r == child_to_bytes(ele.right)
                IN  IF ~l.ok THEN l
                    ELSE IF ~r.ok THEN r
                    ELSE tree_to_bytes_loop(t, lst, k + 1, b \o l.val \o r.val)

tree_to_bytes(t) == tree_to_bytes_loop(t, post_order(t), 1, <<>>)

num_nodes_to_bytes(t) ==
  IF t.number = NoNumber THEN Raise("TypeError") ELSE bytes1(t.number + 1)

\* little-endian representation of a 32-bit int; n >= 2^32 does not fit
size_to_bytes(n) ==
  IF (n \div Pow2(16)) \div Pow2(16) > 0 THEN Raise("OverflowError")
  ELSE Ok([k \in 1..4 |-> (n \div Pow2(8 * (k - 1))) % 256])

\* <<total_bits, number_of_symbols>>: the quotient avg_length returns
avg_length(t, fd) ==
  LET cds == get_codes(t)
      total_bits == SumSeq([k \in DOMAIN fd |->
                      IF fd[k][1] \in DOMAIN cds
                      THEN Len(cds[fd[k][1]]) * fd[k][2] ELSE 0])
      number_of_symbols == SumSeq([k \in DOMAIN fd |-> fd[k][2]])
  IN  IF number_of_symbols = 0 THEN Raise("ZeroDivisionError")
      ELSE Ok(<<total_bits, number_of_symbols>>)

\* bytearray([x]) for a byte x: a Python value with its type
bytearray1(x) == [type |-> "bytearray", val |-> <<x>>]

\* bytearray.append(item): the bytearray it leaves behind
bytearray_append(self, item) ==
  IF item.type = "int" /\ item.val \in 0..255 THEN Ok(Append(self, item.val))
  ELSE IF item.type = "int" THEN Raise("ValueError")
  ELSE Raise("TypeError")

\* the string s generate_compressed builds from text
RECURSIVE code_string(_, _)
code_string(txt, cds) ==
  IF txt = <<>> THEN <<>>
  ELSE (IF Head(txt) \in DOMAIN cds THEN cds[Head(txt)] ELSE <<>>)
         \o code_string(Tail(txt), cds)

RECURSIVE generate_compressed_loop(_, _)
generate_compressed_loop(str, byte_list) ==
  IF Len(str) = 0 THEN Ok(byte_list)
  ELSE LET a == bytearray_append(byte_list,
                                 bytearray1(bits_to_byte(Take(str, 8))))
       IN  IF a.ok THEN generate_compressed_loop(Drop(str, 8), a.val) ELSE a

generate_compressed(txt, cds) ==
  generate_compressed_loop(code_string(txt, cds), <<>>)

\* the bytes compress writes to out_file, or the exception it raises
compress(txt) ==
  LET freq == make_freq_dict(txt)
      t == huffman_tree(freq)
  IN  IF ~t.ok THEN t
      ELSE LET cds == get_codes(t.val)
               numbered == number_nodes(t.val)
               avg == avg_length(numbered, freq)
               n == num_nodes_to_bytes(numbered)
               tb == tree_to_bytes(numbered)
               sz == size_to_bytes(Len(txt))
               gc == generate_compressed(txt, cds)
           IN  IF ~avg.ok THEN avg
               ELSE IF ~n.ok THEN n
               ELSE IF ~tb.ok THEN tb
               ELSE IF ~sz.ok THEN sz
               ELSE IF ~gc.ok THEN gc
               ELSE Ok(n.val \o tb.val \o sz.val \o gc.val)

-----------------------------------------------------------------------------
(* Functions for decompression                                             *)

\* lst[k] of Python: a negative k counts from the end
Index(lst, k) ==
  IF k >= 0 /\ k < Len(lst) THEN Ok(lst[k + 1])
  ELSE IF k < 0 /\ k >= 0 - Len(lst) THEN Ok(lst[Len(lst) + k + 1])
  ELSE Raise("IndexError")

\* generate_tree_general at nesting depth of calls: more than Len(lst)
\* nested calls have come back to a record, so the recursion cannot end and
\* Python raises RecursionError
RECURSIVE generate_tree_general_at(_, _, _)
generate_tree_general_at(lst, root_index, depth) ==
  LET root == Index(lst, root_index)
  IN  IF depth > Len(lst) THEN Raise("RecursionError")
      ELSE IF ~root.ok THEN root
      ELSE LET l == IF root.val.l_type = 0
                    THEN Ok(HuffmanNode(root.val.l_data, None, None))
                    ELSE generate_tree_general_at(lst, root.val.l_data,
                                                  depth + 1)
               r == IF root.val.r_type = 0
                    THEN Ok(HuffmanNode(root.val.r_data, None, None))
                    ELSE generate_tree_general_at(lst, root.val.r_data,
                                                  depth + 1)
           IN  IF ~l.ok THEN l
               ELSE IF ~r.ok THEN r
               ELSE Ok(HuffmanNode(NoSymbol, l.val, r.val))

generate_tree_general(lst, root_index) ==
  generate_tree_general_at(lst, root_index, 0)

generate_tree_postorder(lst, root_index) ==
  LET root == Index(lst, root_index)
  IN  IF ~root.ok THEN root
      ELSE LET leafL == Ok(HuffmanNode(root.val.l_data, None, None))
               leafR == Ok(HuffmanNode(root.val.r_data, None, None))
               \* <<node.left, node.right>>
               lr == IF root.val.l_type = 0
                     THEN IF root.val.r_type = 0
                          THEN <<leafL, leafR>>
                          ELSE <<leafL,
                                 generate_tree_general(lst, root_index - 1)>>
                     ELSE IF root.val.r_type = 0
                          THEN <<generate_tree_general(lst, root_index - 1),
                                 leafR>>
                          ELSE <<generate_tree_general(lst, root_index - 2),
                                 generate_tree_general(lst, root_index - 1)>>
           IN  IF ~lr[2].ok /\ root.val.l_type # 0 /\ root.val.r_type # 0
               THEN lr[2]
               ELSE IF ~lr[1].ok THEN lr[1]
               ELSE IF ~lr[2].ok THEN lr[2]
               ELSE Ok(HuffmanNode(NoSymbol, lr[1].val, lr[2].val))

RECURSIVE bytes_to_nodes_loop(_, _, _)
bytes_to_nodes_loop(b, k, lst) ==
  IF k >= Len(b) THEN Ok(lst)
  ELSE IF k + 3 >= Len(b) THEN Raise("IndexError")
  ELSE bytes_to_nodes_loop(b, k + 4,
         Append(lst, ReadNode(b[k + 1], b[k + 2], b[k + 3], b[k + 4])))

bytes_to_nodes(b) == bytes_to_nodes_loop(b, 0, <<>>)

\* int.from_bytes(b, "little")
bytes_to_size(b) == SumSeq([k \in 1..Len(b) |-> b[k] * Pow2(8 * (k - 1))])

-----------------------------------------------------------------------------
(* Other functions                                                         *)

\* max(freq_dict, key = freq_dict.get): the first key, in the order of the
\* dict, whose value is the largest
max_by_get(fd) ==
  LET k == CHOOSE k \in DOMAIN fd :
             /\ \A j \in DOMAIN fd : fd[j][2] <= fd[k][2]
             /\ \A j \in 1..(k - 1) : fd[j][2] < fd[k][2]
  IN  fd[k][1]

\* the list helper1_improve_tree returns and the dict it leaves behind
RECURSIVE helper1_improve_tree_loop(_, _)
helper1_improve_tree_loop(fd, lst) ==
  IF Len(fd) = 0 THEN [lst |-> lst, freq_dict |-> fd]
  ELSE LET symbol == max_by_get(fd)
       IN  helper1_improve_tree_loop(OD_Del(fd, symbol), Append(lst, symbol))

helper1_improve_tree(fd) == helper1_improve_tree_loop(fd, <<>>)

\* the tree and the list helper2_improve_tree leaves behind
RECURSIVE helper2_improve_tree(_, _)
helper2_improve_tree(t, lst) ==
  IF t = None THEN [tree |-> t, lst |-> lst]
  ELSE LET popL == Len(lst) # 0 /\ t.left # None /\ is_leaf(t.left)
           t1 == IF popL THEN [t EXCEPT !.left.symbol = Head(lst)] ELSE t
           lst1 == IF popL THEN Tail(lst) ELSE lst
           popR == Len(lst1) # 0 /\ t1.right # None /\ is_leaf(t1.right)
           t2 == IF popR THEN [t1 EXCEPT !.right.symbol = Head(lst1)] ELSE t1
           lst2 == IF popR THEN Tail(lst1) ELSE lst1
           l == helper2_improve_tree(t2.left, lst2)
           r == helper2_improve_tree(t2.right, l.lst)
       IN  [tree |-> [t2 EXCEPT !.left = l.tree, !.right = r.tree],
            lst |-> r.lst]

\* improve_tree handing freq_dict itself, not a copy, to helper1_improve_tree
improve_tree_no_copy(t, fd) ==
  IF t = None \/ is_leaf(t) THEN [tree |-> t, freq_dict |-> fd]
  ELSE LET h1 == helper1_improve_tree(fd)
       IN  [tree |-> helper2_improve_tree(t, h1.lst).tree,
            freq_dict |-> h1.freq_dict]

\* the tree and the caller's freq_dict as improve_tree leaves them
improve_tree(t, fd) ==
  IF t = None \/ is_leaf(t) THEN [tree |-> t, freq_dict |-> fd]
  ELSE LET dict2 == fd
           h1 == helper1_improve_tree(dict2)
       IN  [tree |-> helper2_improve_tree(t, h1.lst).tree, freq_dict |-> fd]

-----------------------------------------------------------------------------
(* Inputs of the tree functions.                                           *)

\* the sequence <<k, k+1, ..., n-1, 0, ..., k-1>>
Rotation(n, k) == [j \in 1..n |-> (j - 1 + k) % n]

\* the trees whose leaves carry, from left to right, the symbols of syms,
\* and whose internal nodes have two children and no symbol
RECURSIVE TreesOver(_)
TreesOver(syms) ==
  IF Len(syms) = 1 THEN {HuffmanNode(syms[1], None, None)}
  ELSE UNION {{HuffmanNode(NoSymbol, l, r) :
                 l \in TreesOver(SubSeq(syms, 1, k)),
                 r \in TreesOver(SubSeq(syms, k + 1, Len(syms)))} :
              k \in 1..(Len(syms) - 1)}

WellFormedTrees ==
  UNION {TreesOver(Rotation(n, k)) : <<n, k>> \in
           {<<n, k>> \in (1..MaxLeaves) \X (0..(MaxLeaves - 1)) : k < n}}

\* the trees of the doctests of get_codes and number_nodes in which a node
\* with a symbol has one child
DoctestTrees ==
  LET L(x) == HuffmanNode(x, None, None)
  IN  {HuffmanNode(NoSymbol, HuffmanNode(3, L(4), None),
                   HuffmanNode(2, None, L(9))),
       HuffmanNode(NoSymbol,
                   HuffmanNode(NoSymbol, HuffmanNode(3, L(6), None), L(2)),
                   HuffmanNode(NoSymbol, L(9), L(10)))}

InputTrees == WellFormedTrees \cup DoctestTrees

\* frequency dicts over the keys 0 .. n-1: rising, falling and equal counts
FreqDicts ==
  UNION {{[k \in 1..n |-> <<k - 1, k>>],
          [k \in 1..n |-> <<k - 1, n + 1 - k>>],
          [k \in 1..n |-> <<k - 1, 1>>]} : n \in 0..MaxLeaves}

-----------------------------------------------------------------------------
(* The tree functions, each called on a tree of InputTrees.                *)

PQIdle == items = EmptyDict /\ pq_ret = None /\ inserts = 0 /\ extracts = 0

TreeIdle ==
  /\ freq_dict = <<>> /\ freq0 = <<>> /\ codes = EmptyDict /\ buf = <<>>
  /\ node_lst = <<>> /\ general = None /\ postorder = None

CodecIdle ==
  /\ text = <<>> /\ packed = Ok(<<>>) /\ out_file = Ok(<<>>)
  /\ orig_file = None /\ chain = ""
  /\ payload = <<>> /\ size = 0 /\ dic = EmptyDict /\ string_bits = <<>>
  /\ uncompressed = <<>> /\ i = 0 /\ bit_code = <<>> /\ s = Unbound

InitTree ==
  /\ pc = "start" /\ err = ""
  /\ tree \in InputTrees /\ tree0 = tree
  /\ PQIdle /\ TreeIdle /\ CodecIdle

NumberNodes ==
  /\ pc = "start"
  /\ tree' = number_nodes(tree)
  /\ pc' = "numbered"
  /\ UNCHANGED <<err, pqVars, tree0, freq_dict, freq0, codes, buf, node_lst,
                 general, postorder, codecVars, guVars>>

TreeToBytes ==
  /\ pc = "numbered"
  /\ LET r == tree_to_bytes(tree)
     IN  /\ pc' = IF r.ok THEN "serialized" ELSE "raised"
         /\ err' = r.err
         /\ buf' = r.val
  /\ UNCHANGED <<pqVars, tree, tree0, freq_dict, freq0, codes, node_lst,
                 general, postorder, codecVars, guVars>>

BytesToNodes ==
  /\ pc = "serialized"
  /\ LET r == bytes_to_nodes(buf)
     IN  /\ pc' = IF r.ok THEN "parsed" ELSE "raised"
         /\ err' = r.err
         /\ node_lst' = r.val
  /\ UNCHANGED <<pqVars, tree, tree0, freq_dict, freq0, codes, buf,
                 general, postorder, codecVars, guVars>>

\* generate_tree_general(node_lst, tree.number); a list index of None raises
GenerateTreeGeneral ==
  /\ pc = "parsed"
  /\ LET r == IF tree.number = NoNumber THEN Raise("TypeError")
              ELSE generate_tree_general(node_lst, tree.number)
     IN  /\ pc' = IF r.ok THEN "general" ELSE "raised"
         /\ err' = r.err
         /\ general' = IF r.ok THEN r.val ELSE None
  /\ UNCHANGED <<pqVars, tree, tree0, freq_dict, freq0, codes, buf, node_lst,
                 postorder, codecVars, guVars>>

\* generate_tree_postorder(node_lst, tree.number) on the same list
GenerateTreePostorder ==
  /\ pc = "general"
  /\ LET r == generate_tree_postorder(node_lst, tree.number)
     IN  /\ pc' = IF r.ok THEN "postorder" ELSE "raised"
         /\ err' = r.err
         /\ postorder' = IF r.ok THEN r.val ELSE None
  /\ UNCHANGED <<pqVars, tree, tree0, freq_dict, freq0, codes, buf, node_lst,
                 general, codecVars, guVars>>

GetCodes ==
  /\ pc = "start"
  /\ codes' = get_codes(tree)
  /\ pc' = "coded"
  /\ UNCHANGED <<err, pqVars, tree, tree0, freq_dict, freq0, buf, node_lst,
                 general, postorder, codecVars, guVars>>

ImproveTree ==
  /\ pc = "start"
  /\ \E fd \in FreqDicts :
       LET r == improve_tree(tree, fd)
       IN  /\ freq0' = fd
           /\ tree' = r.tree
           /\ freq_dict' = r.freq_dict
  /\ pc' = "improved"
  /\ UNCHANGED <<err, pqVars, tree0, codes, buf, node_lst, general,
                 postorder, codecVars, guVars>>

NextTree ==
  \/ NumberNodes
  \/ TreeToBytes
  \/ BytesToNodes
  \/ GenerateTreeGeneral
  \/ GenerateTreePostorder
  \/ GetCodes
  \/ ImproveTree

SpecTree == InitTree /\ [][NextTree]_vars

-----------------------------------------------------------------------------
(* Vocabulary of the properties of trees.                                  *)

\* the references to all nodes of a tree
RECURSIVE Paths(_)
Paths(t) ==
  IF t = None THEN {}
  ELSE {<<>>} \cup {<<0>> \o p : p \in Paths(t.left)}
              \cup {<<1>> \o p : p \in Paths(t.right)}

HasChild(t, p) == NodeAt(t, p).left # None \/ NodeAt(t, p).right # None

InternalPaths(t) == {p \in Paths(t) : HasChild(t, p)}

LeafPaths(t) == {p \in Paths(t) : ~HasChild(t, p)}

\* number of internal nodes
K(t) == Cardinality(InternalPaths(t))

IsPrefix(a, b) == Len(a) <= Len(b) /\ SubSeq(b, 1, Len(a)) = a

\* every internal node has two children and no symbol, every leaf a symbol
WellFormed(t) ==
  /\ t # None
  /\ \A p \in Paths(t) :
       LET n == NodeAt(t, p)
       IN  IF n.left = None /\ n.right = None
           THEN n.symbol \in 0..255
           ELSE n.left # None /\ n.right # None /\ n.symbol = NoSymbol

DistinctSymbols(t) ==
  \A p, q \in LeafPaths(t) :
    p # q => NodeAt(t, p).symbol # NodeAt(t, q).symbol

\* shape and symbols of a tree: the tree without its numbers
RECURSIVE EraseNumbers(_)
EraseNumbers(t) ==
  IF t = None THEN None
  ELSE [symbol |-> t.symbol, left |-> EraseNumbers(t.left),
        right |-> EraseNumbers(t.right)]

\* everything improve_tree must keep: the tree without its leaf symbols
RECURSIVE EraseLeafSymbols(_)
EraseLeafSymbols(t) ==
  IF t = None THEN None
  ELSE IF t.left = None /\ t.right = None THEN [t EXCEPT !.symbol = NoSymbol]
  ELSE [t EXCEPT !.left = EraseLeafSymbols(t.left),
                 !.right = EraseLeafSymbols(t.right)]

-----------------------------------------------------------------------------
(* Properties of the tree functions (specification SpecTree).              *)

\* C5: header round trip. For a well-formed tree with at least one internal
\* node, numbering it, serializing it with tree_to_bytes, parsing the bytes
\* with bytes_to_nodes and rebuilding with generate_tree_general from the
\* root's number raises nothing and gives a tree of the same shape with the
\* same symbol at each leaf.
C5_HeaderRoundTrip ==
  (WellFormed(tree0) /\ K(tree0) >= 1) =>
    /\ pc = "raised" => general # None
    /\ pc = "general" => EraseNumbers(general) = EraseNumbers(tree0)

\* a round trip of a tree whose root has two internal children
C5_Witness ==
  /\ pc = "general" /\ WellFormed(tree0)
  /\ {<<0>>, <<1>>} \subseteq InternalPaths(tree0)
  /\ EraseNumbers(general) = EraseNumbers(tree0)

\* C6: on the postorder serialization of a numbered well-formed tree,
\* generate_tree_postorder and generate_tree_general, both started at the
\* last record, return structurally identical trees.
C6_DeserializersAgree ==
  (pc \in {"postorder", "raised"} /\ general # None /\ WellFormed(tree0)) =>
    /\ pc = "postorder"
    /\ EraseNumbers(postorder) = EraseNumbers(general)

\* the code table of a tree: every leaf symbol is mapped to the non-empty
\* path from the root to its leaf
CodesAreLeafPaths(t, cds) ==
  /\ DOMAIN cds = {NodeAt(t, p).symbol : p \in LeafPaths(t)}
  /\ \A p \in LeafPaths(t) : cds[NodeAt(t, p).symbol] = p /\ Len(p) > 0

PrefixFree(cds) ==
  \A a, b \in DOMAIN cds :
    a # b => ~IsPrefix(cds[a], cds[b]) /\ ~IsPrefix(cds[b], cds[a])

\* C7 (as stated): for every well-formed tree with pairwise distinct leaf
\* symbols, get_codes maps every leaf symbol to its non-empty root-to-leaf
\* path, and no code is a prefix of another.
C7_PrefixFreeCodes ==
  (pc = "coded" /\ WellFormed(tree0) /\ DistinctSymbols(tree0)) =>
    CodesAreLeafPaths(tree0, codes) /\ PrefixFree(codes)

\* C7 (amended): the same for trees with at least one internal node; a tree
\* that is a single leaf gets the empty table.
C7_PrefixFreeCodesOfInternal ==
  /\ (pc = "coded" /\ WellFormed(tree0) /\ DistinctSymbols(tree0)
        /\ K(tree0) >= 1) =>
       CodesAreLeafPaths(tree0, codes) /\ PrefixFree(codes)
  /\ (pc = "coded" /\ WellFormed(tree0) /\ K(tree0) = 0) => codes = EmptyDict

\* a code table with codes of different lengths
C7_Witness ==
  /\ pc = "coded" /\ WellFormed(tree0) /\ DistinctSymbols(tree0)
  /\ \E a, b \in DOMAIN codes : Len(codes[a]) = 1 /\ Len(codes[b]) >= 3

\* C8: number_nodes gives the K >= 1 internal nodes of a tree the numbers
\* 0 .. K-1 without repeats in postorder (below a node, the numbers of its
\* left subtree are smaller than those of its right subtree, and both are
\* smaller than its own), the root gets K-1 and leaves keep number None.
C8_PostorderNumbering ==
  (pc = "numbered" /\ K(tree0) >= 1) =>
    LET I == InternalPaths(tree)
        num(p) == NodeAt(tree, p).number
    IN  /\ I = InternalPaths(tree0)
        /\ {num(p) : p \in I} = 0..(K(tree0) - 1)
        /\ \A p, q \in I : p # q => num(p) # num(q)
        /\ \A p, q \in I : (p # q /\ IsPrefix(p, q)) => num(p) > num(q)
        /\ \A p, q, r \in I :
             (IsPrefix(p \o <<0>>, q) /\ IsPrefix(p \o <<1>>, r)) =>
               num(q) < num(r)
        /\ num(<<>>) = K(tree0) - 1
        /\ \A p \in LeafPaths(tree) : num(p) = NoNumber

\* a numbered tree with internal nodes in both subtrees of the root
C8_Witness ==
  /\ pc = "numbered"
  /\ {<<0>>, <<1>>} \subseteq InternalPaths(tree)
  /\ NodeAt(tree, <<0>>).number = 0
  /\ NodeAt(tree, <<>>).number = K(tree0) - 1

\* C9: improve_tree changes nothing but the symbol fields of leaves: the
\* nodes, their links, the symbols of internal nodes and the numbers stay,
\* and so does the caller's freq_dict.
C9_ShapePreserved ==
  pc = "improved" =>
    /\ EraseLeafSymbols(tree) = EraseLeafSymbols(tree0)
    /\ freq_dict = freq0

\* a call that has moved symbols
C9_Witness ==
  /\ pc = "improved" /\ tree # tree0 /\ Len(freq0) >= 2
  /\ K(tree0) >= 2

-----------------------------------------------------------------------------
(* A PriorityQueue object under calls of its methods.                      *)

Weights == 1..MaxWeight

\* the nodes handed to insert
QueueNodes == {HuffmanNode(sym, None, None) : sym \in 0..1}

InitPQ ==
  /\ pc = "start" /\ err = ""
  /\ tree = None /\ tree0 = None
  /\ PQIdle /\ TreeIdle /\ CodecIdle

Insert ==
  /\ inserts < MaxInserts
  /\ \E key \in Weights, val \in QueueNodes, key_is_int \in BOOLEAN :
       LET r == insert(items, key, key_is_int, val)
       IN  /\ items' = r.items
           /\ pq_ret' = [ok |-> r.ok, val |-> r.val]
           /\ err' = r.err
           /\ inserts' = IF r.ok THEN inserts + 1 ELSE inserts
  /\ UNCHANGED <<pc, extracts, treeVars, codecVars, guVars>>

ExtractMin ==
  /\ LET r == extractMin(items)
     IN  /\ items' = r.items
         /\ pq_ret' = [ok |-> r.ok, val |-> r.val]
         /\ err' = r.err
         /\ extracts' = IF r.ok THEN extracts + 1 ELSE extracts
  /\ UNCHANGED <<pc, inserts, treeVars, codecVars, guVars>>

PeekMin ==
  /\ LET r == PriorityQueue_min(items)
     IN  /\ items' = r.items
         /\ pq_ret' = [ok |-> r.ok, val |-> r.val]
         /\ err' = r.err
  /\ UNCHANGED <<pc, inserts, extracts, treeVars, codecVars, guVars>>

IsEmpty ==
  /\ pq_ret' = [ok |-> TRUE, val |-> is_empty(items)]
  /\ err' = ""
  /\ UNCHANGED <<pc, items, inserts, extracts, treeVars, codecVars, guVars>>

NextPQ ==
  \/ Insert
  \/ ExtractMin
  \/ PeekMin
  \/ IsEmpty

SpecPQ == InitPQ /\ [][NextPQ]_vars

\* C2: no entry is lost on weight ties: the queue holds as many entries as
\* insert calls have returned minus extractMin calls that have returned, so
\* that draining it returns every inserted entry.
C2_NoEntryLost == Cardinality(DOMAIN items) = inserts - extracts

-----------------------------------------------------------------------------
(* The codec: compress, uncompress, generate_compressed and                *)
(* generate_uncompressed. generate_uncompressed runs one loop test per     *)
(* step, so that a loop that never ends shows as a run that never leaves   *)
(* it.                                                                     *)

RECURSIVE SeqsUpTo(_, _)
SeqsUpTo(S, n) ==
  IF n = 0 THEN {<<>>}
  ELSE LET shorter == SeqsUpTo(S, n - 1)
       IN  shorter \cup {Append(q, x) : q \in shorter, x \in S}

Symbols == 0..(NumSymbols - 1)

Texts == SeqsUpTo(Symbols, MaxTextLen)

\* trees whose code table generate_compressed is called with
PackTrees == {t \in WellFormedTrees : t.left # None}

SymbolsOf(t) == {NodeAt(t, p).symbol : p \in LeafPaths(t)}

\* the tree with leaves of depth 1, 2, ..., n, n
RECURSIVE LeftComb(_)
LeftComb(n) ==
  IF n = 0 THEN HuffmanNode(0, None, None)
  ELSE HuffmanNode(NoSymbol, LeftComb(n - 1), HuffmanNode(n, None, None))

\* trees generate_uncompressed is called with
UnpackTrees == WellFormedTrees \cup {LeftComb(CombDepth)}

\* 0b00000000, 0b10111000 (the packed bytes of the doctest), 0b11111111
SampleBytes == {0, 184, 255}

Payloads == SeqsUpTo(SampleBytes, MaxPayloadLen)

\* what compress writes before the payload (lines 365-366)
Header(t, n) ==
  LET numbered == number_nodes(t)
  IN  num_nodes_to_bytes(numbered).val \o tree_to_bytes(numbered).val
        \o size_to_bytes(n).val

\* files uncompress is called with: an empty file, a file of zero nodes, and
\* headers of small trees followed by a payload
SampleFiles ==
  {<<>>, <<0>>} \cup
  {Header(t, n) \o p :
     t \in TreesOver(<<0, 1>>) \cup TreesOver(<<0, 1, 2>>),
     n \in 0..MaxSize, p \in Payloads}

\* {value : key for key, value in codes.items()}
flip(cds) ==
  [c \in {cds[k] : k \in DOMAIN cds} |-> CHOOSE k \in DOMAIN cds : cds[k] = c]

\* the concatenation of byte_to_bits over the bytes of a buffer
RECURSIVE bits_of(_)
bits_of(b) ==
  IF b = <<>> THEN <<>> ELSE byte_to_bits(Head(b)) \o bits_of(Tail(b))

Init ==
  /\ pc = "start" /\ err = ""
  /\ tree = None /\ tree0 = None
  /\ PQIdle /\ TreeIdle /\ CodecIdle

\* compress(in_file, out_file) on a file that holds txt
CompressCall ==
  /\ pc = "start"
  /\ \E txt \in Texts :
       LET r == compress(txt)
       IN  /\ text' = txt
           /\ out_file' = r
           /\ err' = r.err
           /\ pc' = IF r.ok THEN "compress_returned" ELSE "raised"
  /\ chain' = "compress"
  /\ UNCHANGED <<pqVars, tree, treeVars, packed, orig_file, guVars>>

\* uncompress(in_file, out_file) up to its call of generate_uncompressed, on
\* a sample file or on the file compress has written
UncompressCall ==
  /\ pc \in {"start", "compress_returned"}
  /\ \E f \in IF pc = "start" THEN SampleFiles ELSE {out_file.val} :
       LET first == Index(f, 0)
           num_nodes == first.val
           b == Take(Drop(f, 1), num_nodes * 4)
           lst == bytes_to_nodes(b)
           t == generate_tree_general(lst.val, num_nodes - 1)
           rest == Drop(f, 1 + Len(b))
           r == IF ~first.ok THEN first
                ELSE IF ~lst.ok THEN lst
                ELSE t
       IN  /\ pc' = IF r.ok THEN "gu_begin" ELSE "raised"
           /\ err' = r.err
           /\ node_lst' = IF first.ok /\ lst.ok THEN lst.val ELSE <<>>
           /\ tree' = IF r.ok THEN t.val ELSE None
           /\ size' = IF r.ok THEN bytes_to_size(Take(rest, 4)) ELSE 0
           /\ orig_file' = IF r.ok THEN <<>> ELSE None
           /\ payload' = IF r.ok THEN Drop(rest, 4) ELSE <<>>
  /\ chain' = IF pc = "start" THEN "uncompress" ELSE "roundtrip"
  /\ UNCHANGED <<pqVars, tree0, freq_dict, freq0, codes, buf, general,
                 postorder, text, packed, out_file, dic, string_bits,
                 uncompressed, i, bit_code, s>>

\* g.write(generate_uncompressed(tree, text, size))
UncompressWrite ==
  /\ pc = "gu_returned" /\ chain \in {"uncompress", "roundtrip"}
  /\ orig_file' = uncompressed
  /\ pc' = "uncompress_returned"
  /\ UNCHANGED <<err, pqVars, tree, treeVars, text, packed, out_file, chain,
                 guVars>>

\* generate_compressed(text, get_codes(tree))
PackCall ==
  /\ pc = "start"
  /\ \E t \in PackTrees :
       \E txt \in {x \in Texts : \A k \in DOMAIN x : x[k] \in SymbolsOf(t)} :
         LET r == generate_compressed(txt, get_codes(t))
         IN  /\ tree' = t
             /\ text' = txt
             /\ codes' = get_codes(t)
             /\ packed' = r
             /\ err' = r.err
             /\ pc' = IF r.ok THEN "pack_returned" ELSE "raised"
  /\ chain' = "pack"
  /\ UNCHANGED <<pqVars, tree0, freq_dict, freq0, buf, node_lst, general,
                 postorder, out_file, orig_file, guVars>>

\* generate_uncompressed(tree, text, size) is called: on sample arguments,
\* or on the bytes generate_compressed returned and the length of its text
UnpackCall ==
  /\ pc \in {"start", "pack_returned"}
  /\ \E a \in IF pc = "start"
              THEN UnpackTrees \X Payloads \X (0..MaxSize)
              ELSE {<<tree, packed.val, Len(text)>>} :
       /\ tree' = a[1]
       /\ payload' = a[2]
       /\ size' = a[3]
  /\ chain' = IF pc = "start" THEN "unpack" ELSE "pack_unpack"
  /\ pc' = "gu_begin"
  /\ UNCHANGED <<err, pqVars, tree0, freq_dict, freq0, codes, buf, node_lst,
                 general, postorder, text, packed, out_file, orig_file, dic,
                 string_bits, uncompressed, i, bit_code, s>>

\* lines 441-450: the locals before the loop; s is not assigned
GU_Begin ==
  /\ pc = "gu_begin"
  /\ codes' = get_codes(tree)
  /\ dic' = flip(codes')
  /\ string_bits' = bits_of(payload)
  /\ uncompressed' = <<>>
  /\ i' = 0 /\ bit_code' = <<>> /\ s' = Unbound
  /\ pc' = "gu_while"
  /\ UNCHANGED <<err, pqVars, tree, tree0, freq_dict, freq0, buf, node_lst,
                 general, postorder, codecVars, payload, size>>

\* lines 451-453: the test of the outer loop, then i = 0 and
\* bit_code = string_bits[i]
GU_While ==
  /\ pc = "gu_while"
  /\ IF Len(uncompressed) < size
     THEN /\ i' = 0
          /\ IF Len(string_bits) = 0
             THEN pc' = "raised" /\ err' = "IndexError" /\ bit_code' = bit_code
             ELSE pc' = "gu_scan" /\ err' = err
                    /\ bit_code' = <<string_bits[1]>>
     ELSE /\ pc' = "gu_returned"
          /\ UNCHANGED <<err, i, bit_code>>
  /\ UNCHANGED <<pqVars, tree, treeVars, codecVars, payload, size, dic,
                 string_bits, uncompressed, s>>

\* lines 454-456: one turn of the inner loop. The slice string_bits[0 : i]
\* stops growing at the end of string_bits; the scan is followed ScanSlack
\* turns past it.
GU_Scan ==
  /\ pc = "gu_scan"
  /\ bit_code \notin DOMAIN dic
  /\ i < Len(string_bits) + ScanSlack
  /\ i' = i + 1
  /\ bit_code' = Take(string_bits, i')
  /\ UNCHANGED <<pc, err, pqVars, tree, treeVars, codecVars, payload, size,
                 dic, string_bits, uncompressed, s>>

\* lines 457-458: the inner loop has ended; the symbol is appended, then
\* s = s[i:] reads s
GU_Emit ==
  /\ pc = "gu_scan"
  /\ bit_code \in DOMAIN dic
  /\ uncompressed' = Append(uncompressed, dic[bit_code])
  /\ IF s = Unbound
     THEN pc' = "raised" /\ err' = "UnboundLocalError" /\ s' = s
     ELSE pc' = "gu_while" /\ err' = err /\ s' = Drop(s, i)
  /\ UNCHANGED <<pqVars, tree, treeVars, codecVars, payload, size, dic,
                 string_bits, i, bit_code>>

Next ==
  \/ CompressCall
  \/ UncompressCall
  \/ UncompressWrite
  \/ PackCall
  \/ UnpackCall
  \/ GU_Begin
  \/ GU_While
  \/ GU_Scan
  \/ GU_Emit

Spec == Init /\ [][Next]_vars

-----------------------------------------------------------------------------
(* Properties of the codec (specification Spec).                           *)

\* C1: round trip. compress on a non-empty buffer and then uncompress on
\* what it wrote both return, and uncompress writes exactly the buffer.
C1_RoundTrip ==
  (chain \in {"compress", "roundtrip"} /\ Len(text) >= 1) =>
    /\ pc # "raised"
    /\ pc = "uncompress_returned" => orig_file = text

\* C3: for a well-formed tree of two or more leaves and a text over its
\* symbols, generate_compressed followed by generate_uncompressed with
\* size = len(text) raises nothing and returns exactly the text.
C3_UnpackerRoundTrip ==
  (chain \in {"pack", "pack_unpack"} /\ WellFormed(tree) /\ K(tree) >= 1) =>
    /\ pc # "raised"
    /\ pc = "gu_scan" => i <= Len(string_bits)
    /\ pc = "gu_returned" => uncompressed = text

\* the codes of the bytes of a text, one after the other
RECURSIVE CodeBits(_, _)
CodeBits(txt, cds) ==
  IF txt = <<>> THEN <<>> ELSE cds[Head(txt)] \o CodeBits(Tail(txt), cds)

\* C4: generate_compressed returns ceil(T/8) bytes for T code bits; read
\* MSB-first they are the codes of the text in order, then fewer than 8
\* zero bits.
C4_BitPacker ==
  chain \in {"pack", "pack_unpack"} =>
    /\ packed.ok
    /\ LET bits == CodeBits(text, codes)
           out == bits_of(packed.val)
       IN  /\ Len(packed.val) = (Len(bits) + 7) \div 8
           /\ SubSeq(out, 1, Len(bits)) = bits
           /\ \A k \in (Len(bits) + 1)..Len(out) : out[k] = 0

\* the number of symbols the bits encode: codes matched one after the other
\* from the start of the bits
RECURSIVE DecodableCount(_, _)
DecodableCount(bits, d) ==
  LET matches == {n \in 1..Len(bits) : SubSeq(bits, 1, n) \in DOMAIN d}
  IN  IF matches = {} THEN 0
      ELSE 1 + DecodableCount(Drop(bits, Min(matches)), d)

\* C10: when size is larger than the number of symbols the payload encodes,
\* generate_uncompressed does not return, and it does not keep scanning
\* once the candidate has taken in all of string_bits without a match (from
\* there the candidate cannot change and the inner loop cannot end).
C10_CorruptPayloadReported ==
  (pc \in {"gu_while", "gu_scan", "gu_returned"}
     /\ size > DecodableCount(string_bits, dic)) =>
    /\ pc # "gu_returned"
    /\ pc = "gu_scan" => i <= Len(string_bits)

-----------------------------------------------------------------------------
(* huffman_tree, one turn of its loop per step, on the queue held in items.*)
(* inserts and extracts count the calls of the queue's methods, so that    *)
(* inserts - Len(freq0) is the number of merges made so far.               *)

\* frequency dicts over the keys 0 .. n-1 with counts 1 .. MaxFreq
BuildFreqDicts ==
  UNION {[1..n -> 1..MaxFreq] : n \in 0..MaxBuildSyms}

BuildDict(f) == [k \in DOMAIN f |-> <<k - 1, f[k]>>]

InitBuild ==
  /\ pc = "start" /\ err = ""
  /\ tree = None /\ tree0 = None
  /\ items = EmptyDict /\ pq_ret = None /\ inserts = 0 /\ extracts = 0
  /\ \E f \in BuildFreqDicts : freq_dict = BuildDict(f)
  /\ freq0 = freq_dict
  /\ codes = EmptyDict /\ buf = <<>> /\ node_lst = <<>>
  /\ general = None /\ postorder = None
  /\ CodecIdle

\* line 106: p = helper_huffman_tree(freq_dict), one insert per symbol
HT_Seed ==
  /\ pc = "start"
  /\ items' = helper_huffman_tree(freq_dict)
  /\ inserts' = inserts + Len(freq_dict)
  /\ pc' = "ht_loop"
  /\ UNCHANGED <<err, pq_ret, extracts, treeVars, codecVars, guVars>>

\* line 111 on an empty queue: extractMin raises
HT_Raise ==
  /\ pc = "ht_loop"
  /\ LET n1 == extractMin(items)
     IN  /\ ~n1.ok
         /\ err' = n1.err
         /\ pq_ret' = [ok |-> n1.ok, val |-> n1.val]
  /\ pc' = "raised"
  /\ UNCHANGED <<items, inserts, extracts, treeVars, codecVars, guVars>>

\* lines 111-113 and 126: n1 was the only entry; return n1[1]
HT_Return ==
  /\ pc = "ht_loop"
  /\ LET n1 == extractMin(items)
     IN  /\ n1.ok
         /\ is_empty(n1.items)
         /\ items' = n1.items
         /\ pq_ret' = [ok |-> n1.ok, val |-> n1.val]
         /\ tree' = n1.val[2]
  /\ extracts' = extracts + 1
  /\ pc' = "ht_returned"
  /\ UNCHANGED <<err, inserts, tree0, freq_dict, freq0, codes, buf, node_lst,
                 general, postorder, codecVars, guVars>>

\* lines 111-124: two entries are taken out, their merge is put in
HT_Merge ==
  /\ pc = "ht_loop"
  /\ LET n1 == extractMin(items)
     IN  /\ n1.ok
         /\ ~is_empty(n1.items)
         /\ LET n2 == extractMin(n1.items)
                node == HuffmanNode(NoSymbol, n1.val[2], n2.val[2])
                r == insert(n2.items, n1.val[1] + n2.val[1], TRUE, node)
            IN  /\ items' = r.items
                /\ pq_ret' = [ok |-> r.ok, val |-> r.val]
  /\ extracts' = extracts + 2
  /\ inserts' = inserts + 1
  /\ UNCHANGED <<pc, err, treeVars, codecVars, guVars>>

NextBuild ==
  \/ HT_Seed
  \/ HT_Raise
  \/ HT_Return
  \/ HT_Merge

SpecBuild == InitBuild /\ [][NextBuild]_vars

\* the steps return what the function composed of them returns
BuildAgrees ==
  /\ pc = "ht_returned" =>
       huffman_tree(freq0).ok /\ huffman_tree(freq0).val = tree
  /\ pc = "raised" => ~huffman_tree(freq0).ok

\* C11: for a frequency table of n >= 2 symbols huffman_tree returns after
\* exactly n-1 merges a tree of exactly n leaves, one per symbol of the
\* table, whose internal nodes have two children; for n = 1 it returns a
\* single leaf, and for n = 0 it fails.
C11_BuilderKeepsSymbols ==
  LET n == Len(freq0)
  IN  /\ (pc = "ht_returned" /\ n >= 2) =>
           /\ inserts - n = n - 1
           /\ WellFormed(tree)
           /\ Cardinality(LeafPaths(tree)) = n
           /\ SymbolsOf(tree) = OD_Keys(freq0)
      /\ (pc = "ht_returned" /\ n = 1) =>
           tree = HuffmanNode(freq0[1][1], None, None)
      /\ n = 0 => pc # "ht_returned"
      /\ n >= 1 => pc # "raised"

-----------------------------------------------------------------------------
(* The optimizer's effect on code lengths (specification SpecTree).        *)

\* sum over the leaves at the paths of P of depth times frequency
RECURSIVE WeightedSum(_, _, _)
WeightedSum(t, fd, P) ==
  IF P = {} THEN 0
  ELSE LET p == CHOOSE p \in P : TRUE
       IN  Len(p) * OD_Get(fd, NodeAt(t, p).symbol)
             + WeightedSum(t, fd, P \ {p})

\* sum over the symbols of len(code) * freq
WeightedLength(t, fd) == WeightedSum(t, fd, LeafPaths(t))

\* C12: for a well-formed tree whose leaf symbols are exactly the keys of
\* freq_dict, after improve_tree the leaf symbols are a permutation of the
\* original ones, no leaf holds a symbol of lower frequency than a strictly
\* deeper leaf, and the weighted code length is no greater than before.
C12_OptimizerReduces ==
  (pc = "improved" /\ WellFormed(tree0) /\ DistinctSymbols(tree0)
     /\ SymbolsOf(tree0) = OD_Keys(freq0)) =>
    /\ SymbolsOf(tree) = SymbolsOf(tree0)
    /\ DistinctSymbols(tree)
    /\ \A p, q \in LeafPaths(tree) :
         Len(p) < Len(q) =>
           OD_Get(freq0, NodeAt(tree, p).symbol)
             >= OD_Get(freq0, NodeAt(tree, q).symbol)
    /\ WeightedLength(tree, freq0) <= WeightedLength(tree0, freq0)

=============================================================================
